---- MODULE Spec2Model ----
(***************************************************************************)
(* humiocli: the record segmenter (utils.readevents_split) and the markup  *)
(* reformatter (prettyxml.process).  Text is a sequence of one-character   *)
(* strings; regular expressions are modelled by what the re module does    *)
(* with them on such sequences.                                            *)
(***************************************************************************)
EXTENDS Integers, Sequences, FiniteSets, TLC

VARIABLES
    \* readevents_split
    pattern, source, sep, io, buffer, out, cut, pc,
    \* prettyxml.process
    markup, opts, rawstring, preface, xml_parts, idx, nodes, repaired,
    indent_count, prettified, kv, result, xpc,
    \* clean_tags applied repeatedly: the successive results
    cleaned,
    \* utils.highlight
    hl_input, hl_rawstring, hl_returned, hl_pc,
    \* cli.ingest: the loop over the files
    ingestfiles, encoding_option, encoding, fileno, warned, skipped, opened, ipc

segvars == <<pattern, source, sep, io, buffer, out, cut, pc>>
xmlvars == <<markup, opts, rawstring, preface, xml_parts, idx, nodes, repaired,
             indent_count, prettified, kv, result, xpc>>
hlvars == <<hl_input, hl_rawstring, hl_returned, hl_pc>>
ingestvars == <<ingestfiles, encoding_option, encoding, fileno, warned, skipped, opened, ipc>>
vars == <<segvars, xmlvars, cleaned, hlvars, ingestvars>>

LF == "\n"
CR == "\r"
Digits == {"0", "1", "2", "3", "4", "5", "6", "7", "8", "9"}

(***************************************************************************)
(* Sequence helpers.                                                       *)
(***************************************************************************)
RECURSIVE Concat(_)
Concat(ss) == IF ss = <<>> THEN <<>> ELSE Head(ss) \o Concat(Tail(ss))

Rep(x, n) == [i \in 1..n |-> x]

EndsWith(x, suffix) ==
    /\ Len(x) >= Len(suffix)
    /\ SubSeq(x, Len(x) - Len(suffix) + 1, Len(x)) = suffix

(***************************************************************************)
(* chomp (utils.py 100-106): strip one final line terminator.              *)
(***************************************************************************)
\* chomp without its "\r\n" case (utils.py 102-103 left out).
chompNoCrLf(x) ==
    IF EndsWith(x, <<LF>>) \/ EndsWith(x, <<CR>>) THEN SubSeq(x, 1, Len(x) - 1)
    ELSE x

chomp(x) ==
    IF EndsWith(x, <<CR, LF>>) THEN SubSeq(x, 1, Len(x) - 2)
    ELSE IF EndsWith(x, <<LF>>) \/ EndsWith(x, <<CR>>) THEN SubSeq(x, 1, Len(x) - 1)
    ELSE x

\* What chomp removed from x: the text after the record chomp returned.
Removed(x) == SubSeq(x, Len(chomp(x)) + 1, Len(x))

(***************************************************************************)
(* Regular expressions.  A pattern source is a sequence of tokens: "^"     *)
(* (line start under MULTILINE), "." (any character, newline included,     *)
(* under DOTALL), "\\d" (a digit), "(" (capturing group), "(?:"            *)
(* (non-capturing group), ")" and literal characters.  \d{n} is written as *)
(* n tokens "\\d".                                                         *)
(***************************************************************************)
IsOpen(t) == t \in {"(", "(?:"}
Width(t) == IF t \in {"^", "(", "(?:", ")"} THEN 0 ELSE 1

\* Parenthesis depth after the first k tokens, or -1 once a ")" closes nothing.
RECURSIVE Depth(_, _)
Depth(p, k) ==
    IF k = 0 THEN 0
    ELSE LET d == Depth(p, k - 1) IN
         IF d = -1 THEN -1
         ELSE IF IsOpen(p[k]) THEN d + 1
         ELSE IF p[k] = ")" THEN d - 1
         ELSE d

\* A compile step that accepts every separator.
CompilesAlways(p) == TRUE

\* re.compile raises re.error on unbalanced parentheses.
Compiles(p) == Depth(p, Len(p)) = 0

\* utils.py 108: sep = re.compile("(" + sep + ")", flags=re.MULTILINE | re.DOTALL)
Wrap(p) == <<"(">> \o p \o <<")">>

TokMatch(t, c) ==
    IF t = "." THEN TRUE
    ELSE IF t = "\\d" THEN c \in Digits
    ELSE t = c

\* Match tokens k.. of p against s with `cur` characters already behind the
\* cursor; the offset where the match ends, or -1.
RECURSIVE MatchFrom(_, _, _, _)
MatchFrom(p, k, s, cur) ==
    IF k > Len(p) THEN cur
    ELSE IF IsOpen(p[k]) \/ p[k] = ")" THEN MatchFrom(p, k + 1, s, cur)
    ELSE IF p[k] = "^"
         THEN IF cur = 0 \/ s[cur] = LF THEN MatchFrom(p, k + 1, s, cur) ELSE -1
    ELSE IF cur < Len(s) /\ TokMatch(p[k], s[cur + 1])
         THEN MatchFrom(p, k + 1, s, cur + 1)
    ELSE -1

\* re.search: does the pattern match anywhere in s.
Search(p, s) == \E pos \in 0..Len(s) : MatchFrom(p, 1, s, pos) # -1

\* Characters consumed by the first k tokens.
Consumed(p, k) == Cardinality({i \in 1..k : Width(p[i]) = 1})

\* Index of the ")" closing the group opened at token k.
RECURSIVE CloseOf(_, _, _)
CloseOf(p, k, d) ==
    IF k > Len(p) THEN Len(p)
    ELSE IF IsOpen(p[k]) THEN CloseOf(p, k + 1, d + 1)
    ELSE IF p[k] = ")" THEN (IF d = 1 THEN k ELSE CloseOf(p, k + 1, d - 1))
    ELSE CloseOf(p, k + 1, d)

\* The capturing groups of a match at offset pos, in the order of their "(".
RECURSIVE GroupsFrom(_, _, _, _)
GroupsFrom(p, k, s, pos) ==
    IF k > Len(p) THEN <<>>
    ELSE IF p[k] = "("
         THEN <<SubSeq(s, pos + Consumed(p, k) + 1,
                          pos + Consumed(p, CloseOf(p, k + 1, 1)))>>
              \o GroupsFrom(p, k + 1, s, pos)
    ELSE GroupsFrom(p, k + 1, s, pos)

\* re.split: the text between matches, each match followed by its groups.
RECURSIVE SplitFrom(_, _, _, _)
SplitFrom(p, s, last, pos) ==
    IF pos > Len(s) THEN <<SubSeq(s, last + 1, Len(s))>>
    ELSE LET e == MatchFrom(p, 1, s, pos) IN
         IF e = -1 THEN SplitFrom(p, s, last, pos + 1)
         ELSE <<SubSeq(s, last + 1, pos)>> \o GroupsFrom(p, 1, s, pos)
              \o SplitFrom(p, s, e, IF e = pos THEN pos + 1 ELSE e)

re_split(p, s) == SplitFrom(p, s, 0, 0)

(***************************************************************************)
(* readevents_split, one line (utils.py 120-135).                          *)
(***************************************************************************)
\* utils.py 121: [a + b for a, b in zip(parts[::2], parts[1::2])]
Pairs(parts) == [i \in 1..(Len(parts) \div 2) |-> parts[2 * i - 1] \o parts[2 * i]]

\* The loop body without the "if buffer:" test of utils.py 130.
StepKeepEmpty(csep, buf, line) ==
    LET split == re_split(csep, line)
        pending_events == Pairs(Tail(split))
        b == buf \o Head(split)
        n == Len(pending_events)
    IN  IF n = 0 THEN [buffer |-> b, yielded |-> <<>>]
        ELSE [buffer |-> pending_events[n],
              yielded |-> <<b>> \o SubSeq(pending_events, 1, n - 1)]

\* The buffer and the records yielded after one line, from the buffer before.
Step(csep, buf, line) ==
    LET split == re_split(csep, line)
        continuation == Head(split)
        pending_events == Pairs(Tail(split))
        b == buf \o continuation
        n == Len(pending_events)
    IN  IF n = 0 THEN [buffer |-> b, yielded |-> <<>>]
        ELSE [buffer |-> pending_events[n],
              yielded |-> (IF b # <<>> THEN <<b>> ELSE <<>>)
                          \o SubSeq(pending_events, 1, n - 1)]

\* The whole generator run over `lines` (utils.py 109-136): the raw text of
\* every record in emission order, before chomp.
RECURSIVE RunFrom(_, _, _)
RunFrom(csep, buf, lines) ==
    IF lines = <<>> THEN <<buf>>
    ELSE LET st == Step(csep, buf, Head(lines)) IN
         st.yielded \o RunFrom(csep, st.buffer, Tail(lines))

Records(p, lines) == [i \in DOMAIN RunFrom(Wrap(p), <<>>, lines) |->
                        chomp(RunFrom(Wrap(p), <<>>, lines)[i])]

(***************************************************************************)
(* Inputs.                                                                 *)
(***************************************************************************)
MaxLines == 2

Contents == {<<>>, <<"1">>, <<"a">>, <<"a", "1">>, <<"1", "a">>}
Terminators == {<<LF>>, <<CR, LF>>, <<CR>>}
FullLines == {c \o t : c \in Contents, t \in Terminators}
LastLines == FullLines \cup (Contents \ {<<>>})

\* readline never returns "x\r" and then a line starting with "\n": that is
\* the single line "x\r\n".
Readable(lines) ==
    \A i \in 1..(Len(lines) - 1) :
        /\ lines[i] \in FullLines
        /\ ~(EndsWith(lines[i], <<CR>>) /\ Head(lines[i + 1]) = LF)

RECURSIVE Streams(_)
Streams(n) ==
    IF n = 0 THEN {<<>>}
    ELSE Streams(n - 1) \cup
         {s \in {Append(h, l) : h \in Streams(n - 1), l \in LastLines} :
             Len(s) = n /\ Readable(s)}

DefaultSep == <<"^", ".">>
DateSep == <<"^">> \o Rep("\\d", 4) \o <<"-">> \o Rep("\\d", 2) \o <<"-">> \o Rep("\\d", 2)

\* Separators re.compile accepts, and two it rejects ("(\d" and "\d)").
ValidSeparators ==
    { DefaultSep,
      <<"^", "\\d">>,
      <<"\\d">>,
      <<"^">>,
      <<"^", "(", "\\d", ")">>,
      <<"^", "(?:", "\\d", ")">>,
      <<"(", "\\d", ")", "a">>,
      <<"z">> }

InvalidSeparators == { <<"(", "\\d">>, <<"\\d", ")">> }

Separators == ValidSeparators \cup InvalidSeparators

DateLines ==
    << <<"2","0","2","0","-","0","1","-","0","1"," ","A",LF>>,
       <<"m","o","r","e"," ","A",LF>>,
       <<"2","0","2","0","-","0","1","-","0","2"," ","B",LF>> >>

(***************************************************************************)
(* prettyxml: the regular expressions, by what they match.                 *)
(***************************************************************************)
Space == {" ", "\t", LF, CR, "\f"}
Quotes == {"\"", "'"}

\* Offset after the longest run from pos of characters outside / inside a set.
RECURSIVE RunNot(_, _, _)
RunNot(excl, s, pos) ==
    IF pos < Len(s) /\ s[pos + 1] \notin excl THEN RunNot(excl, s, pos + 1) ELSE pos

RECURSIVE RunIn(_, _, _)
RunIn(incl, s, pos) ==
    IF pos < Len(s) /\ s[pos + 1] \in incl THEN RunIn(incl, s, pos + 1) ELSE pos

At(s, i) == IF i >= 1 /\ i <= Len(s) THEN s[i] ELSE ""
StartsAt(s, pos, lit) ==
    pos + Len(lit) <= Len(s) /\ SubSeq(s, pos + 1, pos + Len(lit)) = lit

\* prettyxml.py 18: \s*(<[^<>]+>)\s* at pos; the tag and the end of the match.
StripMatch(s, pos) ==
    LET j == RunIn(Space, s, pos)
        k == RunNot({"<", ">"}, s, j + 1)
    IN  IF At(s, j + 1) = "<" /\ k > j + 1 /\ At(s, k + 1) = ">"
        THEN [ok |-> TRUE, tag |-> SubSeq(s, j + 1, k + 1), end |-> RunIn(Space, s, k + 1)]
        ELSE [ok |-> FALSE, tag |-> <<>>, end |-> pos]

\* prettyxml.py 18: re.sub(r"\s*(<[^<>]+>)\s*", r"\1", rawstring)
RECURSIVE StripFrom(_, _)
StripFrom(s, pos) ==
    IF pos >= Len(s) THEN <<>>
    ELSE LET m == StripMatch(s, pos) IN
         IF m.ok THEN m.tag \o StripFrom(s, m.end)
         ELSE <<s[pos + 1]>> \o StripFrom(s, pos + 1)

Strip(s) == StripFrom(s, 0)

\* prettyxml.py 12: re_namespace,  xmlns[^"']+['"][^"']+["'] at pos; its end or -1.
Xmlns == <<" ", "x", "m", "l", "n", "s">>
NamespaceEnd(s, pos) ==
    LET a == pos + Len(Xmlns)
        k1 == RunNot(Quotes, s, a)
        k2 == RunNot(Quotes, s, k1 + 1)
    IN  IF /\ StartsAt(s, pos, Xmlns)
           /\ k1 > a /\ At(s, k1 + 1) \in Quotes
           /\ k2 > k1 + 1 /\ At(s, k2 + 1) \in Quotes
        THEN k2 + 1 ELSE -1

\* prettyxml.py 107: re_namespace.sub("", xml)
RECURSIVE SubNamespace(_, _)
SubNamespace(s, pos) ==
    IF pos >= Len(s) THEN <<>>
    ELSE LET e == NamespaceEnd(s, pos) IN
         IF e # -1 THEN SubNamespace(s, e)
         ELSE <<s[pos + 1]>> \o SubNamespace(s, pos + 1)

\* prettyxml.py 13: re_namespace_prefix, (<\/?)[^:<> ]{0,20}: at pos.
PrefixMax == 20
PrefixMatch(s, pos) ==
    LET q == IF At(s, pos + 2) = "/" THEN pos + 2 ELSE pos + 1
        k == RunNot({":", "<", ">", " "}, s, q)
    IN  IF At(s, pos + 1) = "<" /\ k - q <= PrefixMax /\ At(s, k + 1) = ":"
        THEN [ok |-> TRUE, group1 |-> SubSeq(s, pos + 1, q), end |-> k + 1]
        ELSE [ok |-> FALSE, group1 |-> <<>>, end |-> pos]

\* prettyxml.py 108: re_namespace_prefix.sub(r"\1", xml)
RECURSIVE SubPrefix(_, _)
SubPrefix(s, pos) ==
    IF pos >= Len(s) THEN <<>>
    ELSE LET m == PrefixMatch(s, pos) IN
         IF m.ok THEN m.group1 \o SubPrefix(s, m.end)
         ELSE <<s[pos + 1]>> \o SubPrefix(s, pos + 1)

\* prettyxml.py 106-109
clean_tags(xml) == SubPrefix(SubNamespace(xml, 0), 0)

\* prettyxml.py 23: (<[^<>]+)(<) at pos; the offset of the second "<", or -1.
PrefaceMatch(s, pos) ==
    LET k == RunNot({"<", ">"}, s, pos + 1) IN
    IF At(s, pos + 1) = "<" /\ k > pos + 1 /\ At(s, k + 1) = "<" THEN k ELSE -1

\* prettyxml.py 23-28: re.split(..., maxsplit=1); where the preface ends (0: none).
RECURSIVE PrefaceEnd(_, _)
PrefaceEnd(s, pos) ==
    IF pos >= Len(s) THEN 0
    ELSE IF PrefaceMatch(s, pos) # -1 THEN PrefaceMatch(s, pos)
    ELSE PrefaceEnd(s, pos + 1)

\* prettyxml.py 9: re_tag, (<[^<>\[\s\d-][^>]*>) at pos; its end or -1.
NotTagStart == {"<", ">", "[", "-"} \cup Space \cup Digits
TagEnd(s, pos) ==
    LET k == RunNot({">"}, s, pos + 2) IN
    IF /\ At(s, pos + 1) = "<"
       /\ pos + 2 <= Len(s) /\ s[pos + 2] \notin NotTagStart
       /\ At(s, k + 1) = ">"
    THEN k + 1 ELSE -1

\* prettyxml.py 51: re_tag.match(part)
IsTag(part) == TagEnd(part, 0) # -1

\* prettyxml.py 31: [part for part in re_tag.split(rawstring) if part != ""]
RECURSIVE TokensFrom(_, _, _)
TokensFrom(s, last, pos) ==
    LET NonEmpty(x) == IF x = <<>> THEN <<>> ELSE <<x>> IN
    IF pos >= Len(s) THEN NonEmpty(SubSeq(s, last + 1, Len(s)))
    ELSE LET e == TagEnd(s, pos) IN
         IF e = -1 THEN TokensFrom(s, last, pos + 1)
         ELSE NonEmpty(SubSeq(s, last + 1, pos)) \o <<SubSeq(s, pos + 1, e)>>
              \o TokensFrom(s, e, e)

Tokenize(s) == TokensFrom(s, 0, 0)

\* prettyxml.py 10: re_opening_tag.match(part), <(?:[^<>/\s]+)[^>]*(?<!/)>
IsOpening(part) ==
    LET k == RunNot({">"}, part, 2) IN
    /\ At(part, 1) = "<"
    /\ Len(part) >= 2 /\ part[2] \notin ({"<", ">", "/"} \cup Space)
    /\ At(part, k + 1) = ">"
    /\ part[k] # "/"

\* prettyxml.py 11: re_closing_tag.match(part), <[/].*?> ("." stops at a newline)
IsClosing(part) ==
    /\ StartsAt(part, 0, <<"<", "/">>)
    /\ At(part, RunNot({">", LF}, part, 2) + 1) = ">"

\* prettyxml.py 118: part[1:-1].split(" ", 1)[0]
NodeName(part) ==
    LET inner == SubSeq(part, 2, Len(part) - 1)
    IN  SubSeq(inner, 1, RunNot({" "}, inner, 0))

\* The previous-part test without its "</" case.
AfterSelfClosingOnly(previous_part) == EndsWith(previous_part, <<"/", ">">>)

\* The previous-part test taken as: the previous part begins like a tag.
AfterTag(previous_part) == StartsAt(previous_part, 0, <<"<">>)

\* prettyxml.py 55, 75, 100: previous_part[:2] == "</" or previous_part[-2:] == "/>"
AfterClosing(previous_part) ==
    \/ StartsAt(previous_part, 0, <<"<", "/">>)
    \/ EndsWith(previous_part, <<"/", ">">>)

\* The decrement without its floor at 0.
DedentBelowZero(n) == n - 1

\* prettyxml.py 53, 88: indent_count -= 1 if indent_count > 0 else 0
Dedent(n) == IF n > 0 THEN n - 1 ELSE n

\* prettyxml.py 51-69, 85-95: the branch a renderer takes for a part.
TagKind(part) ==
    IF ~IsTag(part) THEN "value"
    ELSE IF part[2] = "/" THEN "closing"
    ELSE IF part[2] = "?" THEN "prolog"
    ELSE IF part[Len(part) - 1] = "/" THEN "self-closing"
    ELSE IF part[2] = "!" THEN "declaration"
    ELSE "opening"

\* "\n%s%s" % (indent * indent_count, part) and "%s%s" % (...)
Indented(indent, n, part) == Concat(Rep(indent, n)) \o part
OnNewLine(indent, n, part) == <<LF>> \o Indented(indent, n, part)

(***************************************************************************)
(* The generator as a state machine.                                       *)
(***************************************************************************)
SegInit ==
    /\ \/ pattern \in Separators /\ source \in Streams(MaxLines)
       \/ pattern = DateSep /\ source = DateLines
    /\ sep = <<>>
    /\ io = source
    /\ buffer = <<>>
    /\ out = <<>>
    /\ cut = <<>>
    /\ pc = "compile"

\* utils.py 108-109: the first next() compiles the separator, or raises.
Compile ==
    /\ pc = "compile"
    /\ IF Compiles(Wrap(pattern))
       THEN sep' = Wrap(pattern) /\ pc' = "read"
       ELSE sep' = sep /\ pc' = "raised"
    /\ UNCHANGED <<pattern, source, io, buffer, out, cut>>
    /\ UNCHANGED <<xmlvars, cleaned, hlvars, ingestvars>>

\* utils.py 112-135: one line is read and split.
ReadLine ==
    /\ pc = "read"
    /\ io # <<>>
    /\ LET st == Step(sep, buffer, Head(io)) IN
        /\ buffer' = st.buffer
        /\ out' = out \o [i \in DOMAIN st.yielded |-> chomp(st.yielded[i])]
        /\ cut' = cut \o [i \in DOMAIN st.yielded |-> Removed(st.yielded[i])]
    /\ io' = Tail(io)
    /\ UNCHANGED <<pattern, source, sep, pc>>
    /\ UNCHANGED <<xmlvars, cleaned, hlvars, ingestvars>>

\* An end-of-input step that flushes the buffer only when it is not empty.
EofSkipEmpty ==
    /\ pc = "read"
    /\ io = <<>>
    /\ out' = (IF buffer # <<>> THEN Append(out, chomp(buffer)) ELSE out)
    /\ cut' = (IF buffer # <<>> THEN Append(cut, Removed(buffer)) ELSE cut)
    /\ pc' = "done"
    /\ UNCHANGED <<pattern, source, sep, io, buffer>>
    /\ UNCHANGED <<xmlvars, cleaned, hlvars, ingestvars>>

\* utils.py 113-114, 136: readline returned "", the buffer is flushed.
Eof ==
    /\ pc = "read"
    /\ io = <<>>
    /\ out' = Append(out, chomp(buffer))
    /\ cut' = Append(cut, Removed(buffer))
    /\ pc' = "done"
    /\ UNCHANGED <<pattern, source, sep, io, buffer>>
    /\ UNCHANGED <<xmlvars, cleaned, hlvars, ingestvars>>

(***************************************************************************)
(* process (prettyxml.py 16-42) as a state machine: one step per stage and *)
(* one step per part inside repair_tags, prettify and key_value.           *)
(***************************************************************************)
MaxTokens == 3

TwoSpaces == <<" ", " ">>
FourSpaces == <<" ", " ", " ", " ">>

\* Markup pieces: opening tags (with an attribute after a space or a tab), a
\* self-closing tag, closing tags, the empty closing tag and a value.
OpenA == [kind |-> "open", name |-> <<"a">>, text |-> <<"<", "a", ">">>]
OpenAttr == [kind |-> "open", name |-> <<"a">>,
             text |-> <<"<", "a", " ", "a", "t", "t", "r", "=", "'", "1", "'", ">">>]
OpenTab == [kind |-> "open", name |-> <<"a">>,
            text |-> <<"<", "a", "\t", "a", "t", "t", "r", "=", "'", "1", "'", ">">>]
OpenB == [kind |-> "open", name |-> <<"b">>, text |-> <<"<", "b", ">">>]
SelfB == [kind |-> "self", name |-> <<"b">>, text |-> <<"<", "b", "/", ">">>]
CloseA == [kind |-> "close", name |-> <<"a">>, text |-> <<"<", "/", "a", ">">>]
CloseB == [kind |-> "close", name |-> <<"b">>, text |-> <<"<", "/", "b", ">">>]
CloseEmpty == [kind |-> "close", name |-> <<>>, text |-> <<"<", "/", ">">>]
ValueX == [kind |-> "value", name |-> <<>>, text |-> <<"x">>]
\* A prolog and a declaration.
Prolog == [kind |-> "prolog", name |-> <<"p">>, text |-> <<"<", "?", "p", "?", ">">>]
Declaration == [kind |-> "declaration", name |-> <<"D">>, text |-> <<"<", "!", "D", ">">>]
\* Text that re_tag does not take for a tag: "< b/>", and "<b" with no ">".
ValueSlash == [kind |-> "value", name |-> <<>>, text |-> <<"<", " ", "b", "/", ">">>]
Unclosed == [kind |-> "value", name |-> <<>>, text |-> <<"<", "b">>]

Pieces == {OpenA, OpenB, SelfB, CloseA, CloseB, CloseEmpty, ValueX, Prolog, Declaration}

RECURSIVE Markups(_)
Markups(n) ==
    IF n = 0 THEN {<<>>}
    ELSE Markups(n - 1) \cup
         {Append(m, t) : m \in {x \in Markups(n - 1) : Len(x) = n - 1}, t \in Pieces}

\* <a><b>x</b></a>, <a><b></></>, <a><b>x</></>, <a attr='1'><b/></>,
\* <a attr='1'><b/><b></></> and <a attr='1'><b/></> with a tab for the space;
\* <a>< b/></a>, x<b<a>, <a>x</a><b<b> and <?p?><a><!D><b/>x</a>.
ScenarioMarkups ==
    { <<OpenA, OpenB, ValueX, CloseB, CloseA>>,
      <<OpenA, OpenB, CloseEmpty, CloseEmpty>>,
      <<OpenA, OpenB, ValueX, CloseEmpty, CloseEmpty>>,
      <<OpenAttr, SelfB, CloseEmpty>>,
      <<OpenAttr, SelfB, OpenB, CloseEmpty, CloseEmpty>>,
      <<OpenTab, SelfB, CloseEmpty>>,
      <<OpenA, ValueSlash, CloseA>>,
      <<ValueX, Unclosed, OpenA>>,
      <<OpenA, ValueX, CloseA, Unclosed, OpenB>>,
      <<Prolog, OpenA, Declaration, SelfB, ValueX, CloseA>> }

Text(m) == Concat([i \in DOMAIN m |-> m[i].text])

\* The option sets process is run with; the first is its defaults but for
\* the indentation, the second the defaults with repair.
Options ==
    { [strip |-> TRUE, clean |-> TRUE, repair |-> FALSE,
       output_format |-> "pretty", indentation |-> TwoSpaces],
      [strip |-> TRUE, clean |-> TRUE, repair |-> TRUE,
       output_format |-> "pretty", indentation |-> FourSpaces],
      [strip |-> FALSE, clean |-> FALSE, repair |-> TRUE,
       output_format |-> "kv", indentation |-> TwoSpaces] }

XmlStart(m, o) ==
    /\ markup = m
    /\ opts = o
    /\ rawstring = Text(m)
    /\ preface = <<>>
    /\ xml_parts = <<>>
    /\ idx = 1
    /\ nodes = <<>>
    /\ repaired = <<>>
    /\ indent_count = 0
    /\ prettified = <<>>
    /\ kv = <<>>
    /\ result = <<>>

XmlInit ==
    /\ \E m \in Markups(MaxTokens) \cup ScenarioMarkups : \E o \in Options : XmlStart(m, o)
    /\ xpc = "strip"

XmlIdle ==
    /\ XmlStart(<<>>, CHOOSE o \in Options : ~o.repair /\ o.output_format = "pretty")
    /\ xpc = "idle"

SegIdle ==
    /\ pattern = DefaultSep /\ source = <<>> /\ sep = <<>> /\ io = <<>>
    /\ buffer = <<>> /\ out = <<>> /\ cut = <<>> /\ pc = "idle"

\* prettyxml.py 17-18
DoStrip ==
    /\ xpc = "strip"
    /\ rawstring' = (IF opts.strip THEN Strip(rawstring) ELSE rawstring)
    /\ xpc' = "clean"
    /\ UNCHANGED <<markup, opts, preface, xml_parts, idx, nodes, repaired,
                   indent_count, prettified, kv, result>>
    /\ UNCHANGED <<segvars, cleaned, hlvars, ingestvars>>

\* prettyxml.py 19-20
DoClean ==
    /\ xpc = "clean"
    /\ rawstring' = (IF opts.clean THEN clean_tags(rawstring) ELSE rawstring)
    /\ xpc' = "preface"
    /\ UNCHANGED <<markup, opts, preface, xml_parts, idx, nodes, repaired,
                   indent_count, prettified, kv, result>>
    /\ UNCHANGED <<segvars, cleaned, hlvars, ingestvars>>

\* prettyxml.py 23-28
DoPreface ==
    /\ xpc = "preface"
    /\ LET k == PrefaceEnd(rawstring, 0) IN
        /\ preface' = SubSeq(rawstring, 1, k)
        /\ rawstring' = SubSeq(rawstring, k + 1, Len(rawstring))
    /\ xpc' = "tokenize"
    /\ UNCHANGED <<markup, opts, xml_parts, idx, nodes, repaired,
                   indent_count, prettified, kv, result>>
    /\ UNCHANGED <<segvars, cleaned, hlvars, ingestvars>>

\* prettyxml.py 31, 33
DoTokenize ==
    /\ xpc = "tokenize"
    /\ xml_parts' = Tokenize(rawstring)
    /\ xpc' = (IF opts.repair /\ opts.output_format # "kv" THEN "repair" ELSE "render")
    /\ UNCHANGED <<markup, opts, rawstring, preface, idx, nodes, repaired,
                   indent_count, prettified, kv, result>>
    /\ UNCHANGED <<segvars, cleaned, hlvars, ingestvars>>

\* A repair step that keeps the tags only: a part that is no tag is not
\* appended to the result.
RepairStepKeepsTagsOnly ==
    /\ xpc = "repair"
    /\ idx <= Len(xml_parts)
    /\ LET part == xml_parts[idx] IN
        IF IsOpening(part)
        THEN /\ nodes' = Append(nodes, NodeName(part))
             /\ repaired' = Append(repaired, part)
        ELSE IF IsClosing(part)
        THEN LET inferred_part ==
                     IF nodes # <<>>
                     THEN <<"<", "/">> \o nodes[Len(nodes)] \o <<">">>
                     ELSE part
             IN  /\ nodes' = (IF nodes # <<>> THEN SubSeq(nodes, 1, Len(nodes) - 1)
                              ELSE nodes)
                 /\ repaired' = Append(repaired,
                                       IF part = <<"<", "/", ">">> THEN inferred_part
                                       ELSE part)
        ELSE /\ nodes' = nodes
             /\ repaired' = repaired
    /\ idx' = idx + 1
    /\ UNCHANGED <<markup, opts, rawstring, preface, xml_parts,
                   indent_count, prettified, kv, result, xpc>>
    /\ UNCHANGED <<segvars, cleaned, hlvars, ingestvars>>

\* A repair step that pops the stack for the empty closing tag only.
RepairStepPopsEmptyOnly ==
    /\ xpc = "repair"
    /\ idx <= Len(xml_parts)
    /\ LET part == xml_parts[idx] IN
        IF IsOpening(part)
        THEN /\ nodes' = Append(nodes, NodeName(part))
             /\ repaired' = Append(repaired, part)
        ELSE IF part = <<"<", "/", ">">>
        THEN /\ nodes' = (IF nodes # <<>> THEN SubSeq(nodes, 1, Len(nodes) - 1)
                          ELSE nodes)
             /\ repaired' = Append(repaired,
                                   IF nodes # <<>>
                                   THEN <<"<", "/">> \o nodes[Len(nodes)] \o <<">">>
                                   ELSE part)
        ELSE /\ nodes' = nodes
             /\ repaired' = Append(repaired, part)
    /\ idx' = idx + 1
    /\ UNCHANGED <<markup, opts, rawstring, preface, xml_parts,
                   indent_count, prettified, kv, result, xpc>>
    /\ UNCHANGED <<segvars, cleaned, hlvars, ingestvars>>

\* prettyxml.py 116-123: one part of repair_tags' loop.
RepairStep ==
    /\ xpc = "repair"
    /\ idx <= Len(xml_parts)
    /\ LET part == xml_parts[idx] IN
        IF IsOpening(part)
        THEN /\ nodes' = Append(nodes, NodeName(part))
             /\ repaired' = Append(repaired, part)
        ELSE IF IsClosing(part)
        THEN LET inferred_part ==
                     IF nodes # <<>>
                     THEN <<"<", "/">> \o nodes[Len(nodes)] \o <<">">>
                     ELSE part
             IN  /\ nodes' = (IF nodes # <<>> THEN SubSeq(nodes, 1, Len(nodes) - 1)
                              ELSE nodes)
                 /\ repaired' = Append(repaired,
                                       IF part = <<"<", "/", ">">> THEN inferred_part
                                       ELSE part)
        ELSE /\ nodes' = nodes
             /\ repaired' = Append(repaired, part)
    /\ idx' = idx + 1
    /\ UNCHANGED <<markup, opts, rawstring, preface, xml_parts,
                   indent_count, prettified, kv, result, xpc>>
    /\ UNCHANGED <<segvars, cleaned, hlvars, ingestvars>>

\* prettyxml.py 34, 124: xml_parts = repair_tags(xml_parts)
RepairReturn ==
    /\ xpc = "repair"
    /\ idx > Len(xml_parts)
    /\ xml_parts' = repaired
    /\ idx' = 1
    /\ xpc' = "render"
    /\ UNCHANGED <<markup, opts, rawstring, preface, nodes, repaired,
                   indent_count, prettified, kv, result>>
    /\ UNCHANGED <<segvars, cleaned, hlvars, ingestvars>>

\* prettyxml.py 49-77: one part of prettify's loop.
PrettifyStep ==
    /\ xpc = "render"
    /\ opts.output_format = "pretty"
    /\ idx <= Len(xml_parts)
    /\ LET part == xml_parts[idx]
           indent == opts.indentation
           previous_part == IF idx > 1 THEN xml_parts[idx - 1] ELSE <<>>
       IN  IF IsTag(part)
           THEN IF part[2] = "/"
                THEN /\ indent_count' = Dedent(indent_count)
                     /\ prettified' = Append(prettified,
                            IF AfterClosing(previous_part)
                            THEN OnNewLine(indent, Dedent(indent_count), part)
                            ELSE part)
                ELSE IF part[2] = "?"
                THEN /\ indent_count' = indent_count
                     /\ prettified' = Append(prettified, Indented(indent, indent_count, part))
                ELSE IF part[Len(part) - 1] = "/"
                THEN /\ indent_count' = indent_count
                     /\ prettified' = Append(prettified, OnNewLine(indent, indent_count, part))
                ELSE IF part[2] = "!"
                THEN /\ indent_count' = indent_count
                     /\ prettified' = Append(prettified, part)
                ELSE /\ indent_count' = indent_count + 1
                     /\ prettified' = Append(prettified, OnNewLine(indent, indent_count, part))
           ELSE /\ indent_count' = indent_count
                /\ prettified' = Append(prettified,
                       IF AfterClosing(previous_part) THEN <<LF>> \o part ELSE part)
    /\ idx' = idx + 1
    /\ UNCHANGED <<markup, opts, rawstring, preface, xml_parts, nodes, repaired,
                   kv, result, xpc>>
    /\ UNCHANGED <<segvars, cleaned, hlvars, ingestvars>>

\* prettyxml.py 85-102: one part of key_value's loop.
KeyValueStep ==
    /\ xpc = "render"
    /\ opts.output_format = "kv"
    /\ idx <= Len(xml_parts)
    /\ LET part == xml_parts[idx]
           indent == opts.indentation
           previous_part == IF idx > 1 THEN xml_parts[idx - 1] ELSE <<>>
       IN  IF IsTag(part)
           THEN IF part[2] = "/"
                THEN /\ indent_count' = Dedent(indent_count)
                     /\ kv' = kv
                ELSE IF part[2] = "?"
                THEN /\ indent_count' = indent_count
                     /\ kv' = kv
                ELSE IF part[Len(part) - 1] = "/"
                THEN /\ indent_count' = indent_count
                     /\ kv' = Append(kv, OnNewLine(indent, indent_count,
                                  SubSeq(part, 2, Len(part) - 2) \o <<":">>))
                ELSE IF part[2] = "!"
                THEN /\ indent_count' = indent_count
                     /\ kv' = Append(kv, part)
                ELSE /\ indent_count' = indent_count + 1
                     /\ kv' = Append(kv, OnNewLine(indent, indent_count,
                                  SubSeq(part, 2, Len(part) - 1) \o <<":", " ">>))
           ELSE /\ indent_count' = indent_count
                /\ kv' = Append(kv, IF AfterClosing(previous_part) THEN <<LF>> \o part
                                    ELSE part)
    /\ idx' = idx + 1
    /\ UNCHANGED <<markup, opts, rawstring, preface, xml_parts, nodes, repaired,
                   prettified, result, xpc>>
    /\ UNCHANGED <<segvars, cleaned, hlvars, ingestvars>>

\* prettyxml.py 37, 39, 42: return preface + "".join(xml_parts)
Join ==
    /\ xpc = "render"
    /\ idx > Len(xml_parts)
    /\ xml_parts' = (IF opts.output_format = "pretty" THEN prettified ELSE kv)
    /\ result' = preface \o Concat(IF opts.output_format = "pretty" THEN prettified ELSE kv)
    /\ xpc' = "done"
    /\ UNCHANGED <<markup, opts, rawstring, preface, idx, nodes, repaired,
                   indent_count, prettified, kv>>
    /\ UNCHANGED <<segvars, cleaned, hlvars, ingestvars>>

(***************************************************************************)
(* clean_tags (prettyxml.py 106-109) applied to its own result.            *)
(***************************************************************************)
MaxCleanPieces == 4

CleanPieces ==
    { <<"<">>, <<"<", "/">>, <<"a">>, <<"b", ":">>, <<":">>, <<">">>,
      <<" ", "x", "m", "l", "n", "s">>, <<"=", "'", "u", "'">>, <<" ">> }

RECURSIVE PieceStrings(_)
PieceStrings(n) ==
    IF n = 0 THEN {<<>>}
    ELSE PieceStrings(n - 1) \cup
         {x \o c : x \in PieceStrings(n - 1), c \in CleanPieces}

\* <a:b:c> and <a xmlns:x='u' xmlns='v'>
CleanScenarios ==
    { <<"<", "a", ":", "b", ":", "c", ">">>,
      <<"<", "a">> \o Xmlns \o <<":", "x", "=", "'", "u", "'">>
                  \o Xmlns \o <<"=", "'", "v", "'", ">">> }

CleanInit ==
    /\ rawstring \in PieceStrings(MaxCleanPieces) \cup CleanScenarios
    /\ cleaned = <<>>
    /\ markup = <<>>
    /\ opts = CHOOSE o \in Options : ~o.repair /\ o.output_format = "pretty"
    /\ preface = <<>> /\ xml_parts = <<>> /\ idx = 1 /\ nodes = <<>>
    /\ repaired = <<>> /\ indent_count = 0 /\ prettified = <<>> /\ kv = <<>>
    /\ result = <<>>
    /\ xpc = "clean_tags"

\* prettyxml.py 106-109: clean_tags on the text, then on what it returned.
CleanTags ==
    /\ xpc = "clean_tags"
    /\ Len(cleaned) < 2
    /\ cleaned' = Append(cleaned,
                         clean_tags(IF cleaned = <<>> THEN rawstring
                                    ELSE cleaned[Len(cleaned)]))
    /\ UNCHANGED <<segvars, xmlvars, hlvars, ingestvars>>

(***************************************************************************)
(* highlight (utils.py 139-159).  pygments' highlight is outside this      *)
(* repository: Hl stands for its result, the text between the colour codes *)
(* of the lexer and a reset, with the newline pygments ends its output     *)
(* with; any call of it may raise.                                         *)
(***************************************************************************)
MaxHlLen == 3

HlChars == {"{", "}", " ", "a"}

RECURSIVE HlInputs(_)
HlInputs(n) ==
    IF n = 0 THEN {<<>>}
    ELSE HlInputs(n - 1) \cup {Append(x, c) : x \in HlInputs(n - 1), c \in HlChars}

\* str.lstrip, str.rstrip and str.strip
lstrip(x) == SubSeq(x, RunIn(Space, x, 0) + 1, Len(x))
RECURSIVE rstrip(_)
rstrip(x) == IF x # <<>> /\ x[Len(x)] \in Space THEN rstrip(SubSeq(x, 1, Len(x) - 1)) ELSE x
strip(x) == lstrip(rstrip(x))

\* utils.py 153: rawstring.lstrip().startswith("{") and rawstring.rstrip().endswith("}")
LooksLikeJson(x) == StartsAt(lstrip(x), 0, <<"{">>) /\ EndsWith(rstrip(x), <<"}">>)

\* utils.py 154, 155: hl(rawstring, lexer, termformatter)
Hl(x, lexer) == <<lexer>> \o x \o <<"reset", LF>>

HlInit ==
    /\ hl_input \in HlInputs(MaxHlLen)
    /\ hl_rawstring = hl_input
    /\ hl_returned = <<>>
    /\ hl_pc = "json"

HlIdle ==
    /\ hl_input = <<>> /\ hl_rawstring = <<>> /\ hl_returned = <<>> /\ hl_pc = "idle"

\* utils.py 153-154: the JSON pass, when the text looks like JSON.
JsonPass ==
    /\ hl_pc = "json"
    /\ hl_rawstring' = (IF LooksLikeJson(hl_rawstring) THEN Hl(hl_rawstring, "json")
                        ELSE hl_rawstring)
    /\ hl_pc' = "xml"
    /\ UNCHANGED <<hl_input, hl_returned>>
    /\ UNCHANGED <<segvars, xmlvars, cleaned, ingestvars>>

\* utils.py 155: the XML pass.
XmlPass ==
    /\ hl_pc = "xml"
    /\ hl_rawstring' = Hl(hl_rawstring, "xml")
    /\ hl_pc' = "return"
    /\ UNCHANGED <<hl_input, hl_returned>>
    /\ UNCHANGED <<segvars, xmlvars, cleaned, ingestvars>>

\* utils.py 156: return rawstring.strip()
HlReturn ==
    /\ hl_pc = "return"
    /\ hl_returned' = strip(hl_rawstring)
    /\ hl_pc' = "returned"
    /\ UNCHANGED <<hl_input, hl_rawstring>>
    /\ UNCHANGED <<segvars, xmlvars, cleaned, ingestvars>>

\* utils.py 154, 155, 157: a call of hl raises before rawstring is assigned.
HlRaise ==
    /\ \/ hl_pc = "json" /\ LooksLikeJson(hl_rawstring)
       \/ hl_pc = "xml"
    /\ hl_pc' = "except"
    /\ UNCHANGED <<hl_input, hl_rawstring, hl_returned>>
    /\ UNCHANGED <<segvars, xmlvars, cleaned, ingestvars>>

\* utils.py 157-159: except Exception: ... return rawstring
HlExcept ==
    /\ hl_pc = "except"
    /\ hl_returned' = hl_rawstring
    /\ hl_pc' = "handled"
    /\ UNCHANGED <<hl_input, hl_rawstring>>
    /\ UNCHANGED <<segvars, xmlvars, cleaned, ingestvars>>

HlNext == JsonPass \/ XmlPass \/ HlReturn \/ HlRaise \/ HlExcept

(***************************************************************************)
(* ingest (cli.py 467-515): the loop over the files.  A file is what       *)
(* detect_encoding (utils.py 74-87) returns for it; confidences are in     *)
(* percent.                                                                *)
(***************************************************************************)
MaxFiles == 3

None == "None"

DetectResults ==
    { [encoding |-> "utf-8", confidence |-> 99],
      [encoding |-> "utf-8", confidence |-> 50],
      [encoding |-> "ISO-8859-1", confidence |-> 73],
      [encoding |-> None, confidence |-> 0] }

RECURSIVE FileLists(_)
FileLists(n) ==
    IF n = 1 THEN {<<d>> : d \in DetectResults}
    ELSE FileLists(n - 1) \cup
         {Append(fs, d) : fs \in {x \in FileLists(n - 1) : Len(x) = n - 1},
                          d \in DetectResults}

\* utils.py 74-87: detect_encoding(ingestfile)
detect_encoding(ingestfile) == ingestfiles[ingestfile]

IngestInit ==
    /\ ingestfiles \in FileLists(MaxFiles)
    /\ encoding_option \in {None, "ascii"}
    /\ encoding = encoding_option
    /\ fileno = 1
    /\ warned = {}
    /\ skipped = {}
    /\ opened = <<>>
    /\ ipc = "for"

IngestIdle ==
    /\ ingestfiles = <<>> /\ encoding_option = None /\ encoding = None /\ fileno = 1
    /\ warned = {} /\ skipped = {} /\ opened = <<>> /\ ipc = "idle"

\* cli.py 486-490: the warning on a detection of low confidence.
Warned(detected) == IF detected.confidence < 90 THEN warned \cup {fileno} ELSE warned

\* cli.py 483-498: no encoding yet and one is detected for this file.
DetectEncoding ==
    /\ ipc = "for" /\ fileno <= Len(ingestfiles)
    /\ encoding = None
    /\ LET detected == detect_encoding(fileno) IN
        /\ detected.encoding # None
        /\ warned' = Warned(detected)
        /\ encoding' = detected.encoding
    /\ ipc' = "open"
    /\ UNCHANGED <<ingestfiles, encoding_option, fileno, skipped, opened>>
    /\ UNCHANGED <<segvars, xmlvars, cleaned, hlvars>>

\* cli.py 483-497: no encoding yet and none is detected: continue.
SkipFile ==
    /\ ipc = "for" /\ fileno <= Len(ingestfiles)
    /\ encoding = None
    /\ LET detected == detect_encoding(fileno) IN
        /\ detected.encoding = None
        /\ warned' = Warned(detected)
    /\ skipped' = skipped \cup {fileno}
    /\ fileno' = fileno + 1
    /\ UNCHANGED <<ingestfiles, encoding_option, encoding, opened, ipc>>
    /\ UNCHANGED <<segvars, xmlvars, cleaned, hlvars>>

\* cli.py 483: "if not encoding" is false.
UseEncoding ==
    /\ ipc = "for" /\ fileno <= Len(ingestfiles)
    /\ encoding # None
    /\ ipc' = "open"
    /\ UNCHANGED <<ingestfiles, encoding_option, encoding, fileno, warned, skipped, opened>>
    /\ UNCHANGED <<segvars, xmlvars, cleaned, hlvars>>

\* cli.py 500-506: open(ingestfile, "r", encoding=encoding) and ingest it.
OpenFile ==
    /\ ipc = "open"
    /\ opened' = Append(opened, [ingestfile |-> fileno, encoding |-> encoding])
    /\ fileno' = fileno + 1
    /\ ipc' = "for"
    /\ UNCHANGED <<ingestfiles, encoding_option, encoding, warned, skipped>>
    /\ UNCHANGED <<segvars, xmlvars, cleaned, hlvars>>

\* cli.py 481: the loop is over.
IngestDone ==
    /\ ipc = "for" /\ fileno > Len(ingestfiles)
    /\ ipc' = "done"
    /\ UNCHANGED <<ingestfiles, encoding_option, encoding, fileno, warned, skipped, opened>>
    /\ UNCHANGED <<segvars, xmlvars, cleaned, hlvars>>

IngestNext == DetectEncoding \/ SkipFile \/ UseEncoding \/ OpenFile \/ IngestDone

Init == SegInit /\ XmlIdle /\ cleaned = <<>> /\ HlIdle /\ IngestIdle

Next == Compile \/ ReadLine \/ Eof

Spec == Init /\ [][Next]_vars

XmlNext ==
    \/ DoStrip \/ DoClean \/ DoPreface \/ DoTokenize
    \/ RepairStep \/ RepairReturn
    \/ PrettifyStep \/ KeyValueStep \/ Join

InitXml == SegIdle /\ XmlInit /\ cleaned = <<>> /\ HlIdle /\ IngestIdle

InitClean == SegIdle /\ CleanInit /\ HlIdle /\ IngestIdle

SpecClean == InitClean /\ [][CleanTags]_vars

SpecXml == InitXml /\ [][XmlNext]_vars

XmlRest == SegIdle /\ XmlIdle /\ cleaned = <<>>

InitHighlight == XmlRest /\ HlInit /\ IngestIdle

SpecHighlight == InitHighlight /\ [][HlNext]_vars

InitIngest == XmlRest /\ HlIdle /\ IngestInit

SpecIngest == InitIngest /\ [][IngestNext]_vars

(***************************************************************************)
(* Claims about the record segmenter.                                      *)
(***************************************************************************)
IsText(c) == c \notin {CR, LF}
\* A line without its terminator (line contents hold no CR or LF).
Content(line) == SelectSeq(line, IsText)

HasCapture(p) == \E k \in DOMAIN p : p[k] = "("
NonCapturing(p) == [k \in DOMAIN p |-> IF p[k] = "(" THEN "(?:" ELSE p[k]]
Anchored(p) == p # <<>> /\ p[1] = "^"
LineMatches(p, line) == Search(NonCapturing(p), line)
MatchingLines(p, lines) == Cardinality({i \in DOMAIN lines : LineMatches(p, lines[i])})

\* C1: reassembly.  When the generator has finished, the records in emission
\* order, each followed by the terminator chomp removed from it, concatenate
\* to the input stream, for every separator.
C1_Reassembly ==
    pc = "done" => Concat([i \in DOMAIN out |-> out[i] \o cut[i]]) = Concat(source)

\* C2: a separator with capture groups of its own yields the same records as
\* the same separator written with non-capturing groups.
C2_CaptureGroupsSupported ==
    (pc = "done" /\ HasCapture(pattern)) => out = Records(NonCapturing(pattern), source)

\* The lines grouped into records: a matching line starts a group, any other
\* line joins the group in progress.
RECURSIVE Grouped(_, _, _)
Grouped(p, cur, lines) ==
    IF lines = <<>> THEN <<cur>>
    ELSE IF LineMatches(p, Head(lines))
         THEN (IF cur = <<>> THEN <<>> ELSE <<cur>>)
              \o Grouped(p, Head(lines), Tail(lines))
    ELSE Grouped(p, cur \o Head(lines), Tail(lines))

\* C3: with a separator anchored at line start every matching line starts a
\* record and every other line is appended to the record in progress, so
\* there are as many records as matching lines (one more if the first line
\* is not a matching line); the date scenario yields its two records.
C3_MultiLineRecords ==
    (pc = "done" /\ Anchored(pattern)) =>
        /\ out = [i \in DOMAIN Grouped(pattern, <<>>, source) |->
                    chomp(Grouped(pattern, <<>>, source)[i])]
        /\ Len(out) = MatchingLines(pattern, source)
                      + (IF source # <<>> /\ LineMatches(pattern, source[1]) THEN 0 ELSE 1)
        /\ (pattern = DateSep /\ source = DateLines) =>
               out = << <<"2","0","2","0","-","0","1","-","0","1"," ","A",LF,
                          "m","o","r","e"," ","A">>,
                        <<"2","0","2","0","-","0","1","-","0","2"," ","B">> >>

\* C4: end of input flushes the buffer exactly once, as the last record, even
\* when it is empty, and nothing happens afterwards; empty input gives the one
\* record "", and a finished run has at least one record.
C4_EofFlush ==
    [][ /\ pc # "done"
        /\ pc' = "done" =>
             /\ pc = "read" /\ io = <<>>
             /\ out' = Append(out, chomp(buffer))
             /\ Len(out') >= 1
             /\ (source = <<>> => out' = << <<>> >>) ]_vars

C4_Witness == pc = "done" /\ source = <<>> /\ out = << <<>> >>

\* C5: when the separator matches on no line there is exactly one record, the
\* whole input without the terminator of its last line.
C5_RoundTripNoMatch ==
    (pc = "done" /\ \A i \in DOMAIN source : ~Search(Wrap(pattern), source[i])) =>
        out = << (IF source = <<>> THEN <<>>
                  ELSE Concat(SubSeq(source, 1, Len(source) - 1))
                       \o Content(source[Len(source)])) >>

C5_Witness ==
    /\ pc = "done" /\ pattern = <<"z">>
    /\ Len(source) = 2 /\ EndsWith(source[2], <<CR, LF>>)

\* C6: with the default separator every line of a non-empty input is one
\* record, the line without its terminator.
C6_DefaultSeparator ==
    (pc = "done" /\ pattern = DefaultSep /\ source # <<>>) =>
        out = [i \in DOMAIN source |-> Content(source[i])]

C6_Witness ==
    /\ pc = "done" /\ pattern = DefaultSep
    /\ Len(source) = 2 /\ source[1] = <<LF>> /\ out[1] = <<>>

ScenarioC8 == <<OpenA, OpenB, ValueX, CloseB, CloseA>>
PrettyTwoSpaces == opts.output_format = "pretty" /\ opts.indentation = TwoSpaces

\* C8 as stated: process("<a><b>x</b></a>"), pretty, two-space indentation,
\* returns "\n<a>\n  <b>x</b>".
C8_PrettyScenarioAsStated ==
    (xpc = "done" /\ markup = ScenarioC8 /\ PrettyTwoSpaces) =>
        result = <<LF, "<", "a", ">", LF, " ", " ", "<", "b", ">", "x", "<", "/", "b", ">">>

\* C8 amended: it returns "\n<a>\n  <b>x</b>\n</a>"; </b> stays inline after
\* the value, </a> follows the closing tag </b> and goes on its own line at
\* depth 0.
C8_PrettyScenario ==
    (xpc = "done" /\ markup = ScenarioC8 /\ PrettyTwoSpaces) =>
        /\ result = <<LF, "<", "a", ">", LF, " ", " ", "<", "b", ">", "x",
                      "<", "/", "b", ">", LF, "<", "/", "a", ">">>
        /\ prettified[4] = CloseB.text
        /\ prettified[5] = <<LF>> \o CloseA.text

C8_Witness ==
    /\ xpc = "done" /\ markup = ScenarioC8 /\ PrettyTwoSpaces
    /\ Len(prettified) = 5 /\ indent_count = 0

\* Well-formed nested markup in which closing tags may be the empty closing
\* tag: every closing tag closes the innermost open element, by name or as
\* "</>", and nothing stays open.
RECURSIVE WellNested(_, _)
WellNested(m, stack) ==
    IF m = <<>> THEN stack = <<>>
    ELSE IF Head(m).kind = "open"
         THEN WellNested(Tail(m), Append(stack, Head(m).name))
    ELSE IF Head(m).kind = "close"
         THEN /\ stack # <<>>
              /\ Head(m).name \in {<<>>, stack[Len(stack)]}
              /\ WellNested(Tail(m), SubSeq(stack, 1, Len(stack) - 1))
    ELSE WellNested(Tail(m), stack)

\* The same markup with every "</>" written out with the name of the element
\* it closes.
RECURSIVE Restored(_, _)
Restored(m, stack) ==
    IF m = <<>> THEN <<>>
    ELSE IF Head(m).kind = "open"
         THEN Head(m).text \o Restored(Tail(m), Append(stack, Head(m).name))
    ELSE IF Head(m).kind = "close"
         THEN <<"<", "/">> \o stack[Len(stack)] \o <<">">>
              \o Restored(Tail(m), SubSeq(stack, 1, Len(stack) - 1))
    ELSE Head(m).text \o Restored(Tail(m), stack)

Contains(s, lit) == \E pos \in 0..Len(s) : StartsAt(s, pos, lit)

\* C9: repair soundness.  For well-formed nested markup whose closing tags may
\* have been replaced by "</>", the parts after repair are those of the markup
\* with every "</>" written as the closing tag of its opening tag (name only,
\* no attributes), and the output holds no "</>".
C9_RepairSoundness ==
    (/\ xpc \in {"render", "done"}
     /\ opts.repair /\ opts.output_format = "pretty"
     /\ WellNested(markup, <<>>)) =>
        /\ repaired = Tokenize(Restored(markup, <<>>))
        /\ xpc = "done" => ~Contains(result, CloseEmpty.text)

\* C10: clean_tags applied to its own result changes nothing.
C10_CleanIdempotent == Len(cleaned) = 2 => cleaned[2] = cleaned[1]

(***************************************************************************)
(* Claims about the renderers, repair, highlight and ingest.               *)
(***************************************************************************)
Pretty == opts.output_format = "pretty"

\* C11: value preservation.  When process has finished in the pretty style,
\* with or without repair, the rendered parts stand one for one for the parts
\* of the original tokenization: where the original part is a value, the
\* rendered part is that value, unaltered, behind at most the one newline the
\* renderer puts in, and where it is a tag the rendered part is a tag; so no
\* value is dropped, altered or duplicated.
C11_ValuePreservation ==
    (xpc = "done" /\ Pretty) =>
        LET tokens == Tokenize(rawstring) IN
        /\ Len(prettified) = Len(tokens)
        /\ \A i \in DOMAIN tokens :
               IF IsTag(tokens[i])
               THEN IsTag(lstrip(prettified[i]))
               ELSE prettified[i] \in {tokens[i], <<LF>> \o tokens[i]}

\* A repaired and rendered text with a value behind an inserted newline.
C11_Witness ==
    /\ xpc = "done" /\ Pretty /\ opts.repair
    /\ Contains(rawstring, <<"<", "/", ">">>)
    /\ LET tokens == Tokenize(rawstring) IN
       \E i \in DOMAIN tokens :
           ~IsTag(tokens[i]) /\ i \in DOMAIN prettified
           /\ prettified[i] = <<LF>> \o tokens[i]

\* C12: highlight fallback.  When a highlighting step has raised, in the JSON
\* pass or in the XML pass after a JSON pass that succeeded, highlight returns
\* the string it was given, without any highlighting.
C12_HighlightFallback == hl_pc = "handled" => hl_returned = hl_input

\* C13: per-file encoding detection.  In a run without an encoding option,
\* every file that was opened was opened with the encoding detected for that
\* very file, and every file gone through for which no encoding is detected
\* was skipped, whatever was detected for the files before it.
C13_PerFileDetection ==
    encoding_option = None =>
        /\ \A k \in DOMAIN opened :
               opened[k].encoding = detect_encoding(opened[k].ingestfile).encoding
        /\ \A f \in 1..(fileno - 1) :
               detect_encoding(f).encoding = None => f \in skipped

\* A step of repair_tags' loop, over the part xml_parts[idx].
InRepairLoop == xpc = "repair" /\ idx <= Len(xml_parts) /\ idx' = idx + 1

\* A closing tag other than the empty one.
NamedClosing(part) == TagKind(part) = "closing" /\ part # <<"<", "/", ">">>

\* C14 as stated: in repair a named closing tag leaves the stack of open tags
\* as it is; the stack grows on opening tags only and shrinks on the empty
\* closing tag only.
C14_NamedClosingKeepsStack ==
    [][InRepairLoop =>
        LET part == xml_parts[idx] IN
        /\ NamedClosing(part) => nodes' = nodes
        /\ Len(nodes') > Len(nodes) => TagKind(part) \notin {"closing", "value"}
        /\ Len(nodes') < Len(nodes) => part = <<"<", "/", ">">>]_vars

\* C14, amended: in repair every closing tag, named or empty, takes the top
\* off the stack of open tags when there is one; the named closing tag is
\* appended as it is written.  No part that is not a closing tag shrinks the
\* stack and no closing tag grows it.
C14_ClosingTagsPop ==
    [][InRepairLoop =>
        LET part == xml_parts[idx] IN
        IF TagKind(part) = "closing"
        THEN /\ nodes' = (IF nodes = <<>> THEN nodes
                          ELSE SubSeq(nodes, 1, Len(nodes) - 1))
             /\ NamedClosing(part) => repaired' = Append(repaired, part)
        ELSE Len(nodes') >= Len(nodes)]_vars

\* <a><b></b>: the named closing tag has taken "b" off the stack.
C14_Witness ==
    /\ xpc = "repair" /\ idx = 4
    /\ markup = <<OpenA, OpenB, CloseB>>
    /\ nodes = << <<"a">> >>
    /\ repaired = <<OpenA.text, OpenB.text, CloseB.text>>

\* C15: repair puts a name on the stack exactly for the parts the renderers
\* take for opening tags: never for a prolog, a declaration, a self-closing
\* or a closing tag, so that no name on the stack, and no name put into an
\* empty closing tag, comes from a prolog or a declaration.
C15_OnlyOpeningTagsPush ==
    [][InRepairLoop =>
        /\ Len(nodes') > Len(nodes) <=> TagKind(xml_parts[idx]) = "opening"
        /\ \A k \in DOMAIN nodes' : nodes'[k][1] \notin {"?", "!"}
        /\ ~ StartsAt(repaired'[idx], 0, <<"<", "/", "?">>)
        /\ ~ StartsAt(repaired'[idx], 0, <<"<", "/", "!">>)]_vars

\* A step of prettify's loop, and of key_value's, over the part xml_parts[idx].
InPrettify == xpc = "render" /\ Pretty /\ idx <= Len(xml_parts) /\ idx' = idx + 1
InKeyValue == xpc = "render" /\ ~Pretty /\ idx <= Len(xml_parts) /\ idx' = idx + 1

\* The part before xml_parts[idx] is a tag of one of the kinds.
Follows(kinds) == idx > 1 /\ TagKind(xml_parts[idx - 1]) \in kinds

Last(s) == s[Len(s)]

\* The name of a tag: what stands between "<" and the first whitespace, "/"
\* or ">".
TagName(part) == SubSeq(part, 2, RunNot(Space \cup {"/", ">"}, part, 1))

\* The part xml_parts[idx] is the closing tag of the opening tag before it.
ClosesPrevious ==
    /\ TagKind(xml_parts[idx]) = "closing" /\ Follows({"opening"})
    /\ xml_parts[idx] = <<"<", "/">> \o TagName(xml_parts[idx - 1]) \o <<">">>

\* C16 as stated: in the pretty style a closing tag that comes immediately
\* after its opening tag is put on the line after the opening tag's.
C16_EmptyElementTwoLines ==
    [][(InPrettify /\ ClosesPrevious)
        => /\ Head(prettified[idx - 1]) = LF
           /\ Head(Last(prettified')) = LF]_vars

\* C16, amended: in the pretty style an opening tag is put on a new line and
\* its closing tag, when it comes immediately after it, is appended to that
\* line as it is, with no newline and no indentation before it.
C16_EmptyElementOneLine ==
    [][(InPrettify /\ ClosesPrevious)
        => /\ Head(prettified[idx - 1]) = LF
           /\ prettified' = Append(prettified, xml_parts[idx])]_vars

\* <a><b></b></a> rendered: <b></b> on one line between <a> and </a>.
C16_Witness ==
    /\ xpc = "done" /\ Pretty /\ opts.indentation = TwoSpaces
    /\ markup = <<OpenA, OpenB, CloseB>>
    /\ result = <<LF>> \o OpenA.text \o <<LF>> \o TwoSpaces \o OpenB.text \o CloseB.text

\* C17: in the pretty style a closing tag is put on a new line, indented to
\* the decremented depth, exactly when the part before it is a closing or a
\* self-closing tag; after any other part, a value included, and as the first
\* part it is appended as it is.
C17_ClosingPlacement ==
    [][(InPrettify /\ TagKind(xml_parts[idx]) = "closing")
        => prettified' = Append(prettified,
               IF Follows({"closing", "self-closing"})
               THEN OnNewLine(opts.indentation, indent_count', xml_parts[idx])
               ELSE xml_parts[idx])]_vars

\* C18: in both renderers the depth is 0 at the first part and is never
\* negative; an opening tag adds one to it, a closing tag takes one off it
\* unless it is 0, and a prolog, a self-closing tag, a declaration and a value
\* leave it as it is.
C18_DepthInvariant ==
    [][(InPrettify \/ InKeyValue) =>
        /\ idx = 1 => indent_count = 0
        /\ indent_count >= 0 /\ indent_count' >= 0
        /\ indent_count' =
              CASE TagKind(xml_parts[idx]) = "opening" -> indent_count + 1
                [] TagKind(xml_parts[idx]) = "closing" ->
                       (IF indent_count = 0 THEN 0 ELSE indent_count - 1)
                [] OTHER -> indent_count]_vars

\* </a><a><?p?> in the key-value style: the surplus closing tag has left the
\* depth at 0, the opening tag has made it 1 and the prolog has kept it.
C18_Witness ==
    /\ xpc = "render" /\ ~Pretty /\ idx = 4
    /\ markup = <<CloseA, OpenA, Prolog>>
    /\ indent_count = 1

\* C19: in the key-value style an opening tag, with attributes or without,
\* is rendered as its name and ": " on a new line at the current depth, a
\* self-closing tag as its name and ":", and a closing tag and a prolog add
\* nothing to the output.
C19_KeyValueRendering ==
    [][InKeyValue =>
        LET part == xml_parts[idx]
            AtDepth(x) == OnNewLine(opts.indentation, indent_count, x)
        IN  CASE TagKind(part) = "opening" ->
                     kv' = Append(kv, AtDepth(TagName(part) \o <<":", " ">>))
              [] TagKind(part) = "self-closing" ->
                     kv' = Append(kv, AtDepth(TagName(part) \o <<":">>))
              [] TagKind(part) \in {"closing", "prolog"} -> kv' = kv
              [] OTHER -> TRUE]_vars

\* C20: when a preface is held aside, the stripped and cleaned text begins
\* with something that is no tag and the preface holds no complete tag; the
\* parts are the tokens of the rest of the text alone, and the result is the
\* preface, as it stood in the text, before the joined rendered parts.
C20_Preface ==
    /\ (xpc \in {"tokenize", "repair", "render", "done"} /\ preface # <<>>) =>
           /\ TagEnd(preface \o rawstring, 0) = -1
           /\ \A i \in DOMAIN Tokenize(preface) : ~IsTag(Tokenize(preface)[i])
    /\ xpc \in {"repair", "render"} => Len(xml_parts) = Len(Tokenize(rawstring))
    /\ xpc = "done" => result = preface \o Concat(xml_parts)

====
